---- MODULE Spec2Model ----
(***************************************************************************)
(* Text2Vert: text2vert/converter.py.  Raw text files are tokenized into   *)
(* word and punctuation tokens, serialized as a "vertical" file and placed *)
(* in a NoSketch Engine corpus layout together with a registry file.       *)
(*                                                                         *)
(* Strings are sequences of one-character strings, so that splitting,      *)
(* concatenation, lower-casing and number formatting are computed.         *)
(***************************************************************************)
EXTENDS Integers, Sequences, FiniteSets, TLC

(***************************************************************************)
(* Bounds of the model.                                                    *)
(***************************************************************************)
\* longest enumerated raw text of a one-document corpus (SpecText)
MaxLen == 3
\* longest enumerated raw text inside a many-document corpus (SpecText)
MaxShort == 1
\* most documents of an enumerated corpus (SpecText)
MaxDocs == 2
\* most runs of main() against the same filesystem (Spec)
MaxRuns == 2

(***************************************************************************)
(* Characters.                                                             *)
(***************************************************************************)
NL == "\n"

\* the character ` (a TLA+ string cannot hold it)
GRAVE == "U+0060"

\* string.punctuation
_PUNCTUATION_CHARS ==
    {"!", "\"", "#", "$", "%", "&", "'", "(", ")", "*", "+", ",", "-", ".",
     "/", ":", ";", "<", "=", ">", "?", "@", "[", "\\", "]", "^", "_", GRAVE,
     "{", "|", "}", "~"}

\* the separators of str.split() that a TLA+ string can hold
\* (the code's set also has VT, FS, GS, RS, US, NEL and NBSP)
WHITESPACE == {" ", "\t", "\n", "\r", "\f"}

RECURSIVE Concat(_)
\* "".join(seqs)
Concat(seqs) ==
    IF seqs = <<>> THEN <<>> ELSE Head(seqs) \o Concat(Tail(seqs))

(***************************************************************************)
(* str.split(): the maximal runs of non-whitespace characters.             *)
(***************************************************************************)
RECURSIVE str_split_from(_, _, _, _)
str_split_from(text, i, cur, words) ==
    IF i > Len(text)
    THEN IF cur = <<>> THEN words ELSE Append(words, cur)
    ELSE IF text[i] \in WHITESPACE
         THEN str_split_from(text, i + 1, <<>>,
                             IF cur = <<>> THEN words ELSE Append(words, cur))
         ELSE str_split_from(text, i + 1, Append(cur, text[i]), words)

str_split(text) == str_split_from(text, 1, <<>>, <<>>)

(***************************************************************************)
(* _split_word: the loop of lines 190-194 runs over i = 0..len(word)-1;    *)
(* the slice word[a:b] is SubSeq(word, a + 1, b).                          *)
(***************************************************************************)
RECURSIVE split_word_loop(_, _, _, _)
split_word_loop(word, i, last_cut_i, splits) ==
    IF i >= Len(word)
    THEN IF last_cut_i < Len(word)
         THEN Append(splits, SubSeq(word, last_cut_i + 1, Len(word)) \o <<NL>>)
         ELSE splits
    ELSE IF word[i + 1] \in _PUNCTUATION_CHARS
         THEN split_word_loop(word, i + 1, i + 1,
                  splits \o << SubSeq(word, last_cut_i + 1, i) \o <<NL>>,
                               <<word[i + 1], NL>> >>)
         ELSE split_word_loop(word, i + 1, last_cut_i, splits)

\* a tokenizer that leaves punctuation inside the word
split_word_unsplit(word) == << word \o <<NL>> >>

\* a tokenizer that loses the text after the last punctuation character
split_word_no_tail(word) ==
    LET all == split_word_loop(word, 0, 0, <<>>)
    IN  IF all # <<>> /\ word[Len(word)] \notin _PUNCTUATION_CHARS
        THEN SubSeq(all, 1, Len(all) - 1) ELSE all

_split_word(word) == split_word_loop(word, 0, 0, <<>>)

\* one document: the splits of every word, in order
one_doc_of(raw_text) ==
    LET words == str_split(raw_text)
    IN  Concat([k \in 1..Len(words) |-> _split_word(words[k])])

_convert_text_to_vert(texts) ==
    [k \in 1..Len(texts) |-> one_doc_of(texts[k])]

(***************************************************************************)
(* _write_vert: the characters written to the vertical file.               *)
(***************************************************************************)
Digit(d) == CASE d = 0 -> "0" [] d = 1 -> "1" [] d = 2 -> "2" [] d = 3 -> "3"
              [] d = 4 -> "4" [] d = 5 -> "5" [] d = 6 -> "6" [] d = 7 -> "7"
              [] d = 8 -> "8" [] d = 9 -> "9"

RECURSIVE int_str(_)
\* the decimal numeral that an f-string writes for a natural number
int_str(n) == IF n < 10 THEN <<Digit(n)>>
              ELSE int_str(n \div 10) \o <<Digit(n % 10)>>

DOC_OPEN_1 == <<"<", "d", "o", "c", " ", "n", "=", "\"">>
DOC_OPEN_2 == <<"\"", ">">>
DOC_CLOSE == <<"<", "/", "d", "o", "c", ">">>

\* an opening line that numbers the documents from 0
doc_open_line_zero_based(i) == DOC_OPEN_1 \o int_str(i) \o DOC_OPEN_2 \o <<NL>>

\* f"<doc n=\"{i + 1}\">\n" for the 0-based position i of enumerate()
doc_open_line(i) == DOC_OPEN_1 \o int_str(i + 1) \o DOC_OPEN_2 \o <<NL>>

_write_vert(documents) ==
    Concat([k \in 1..Len(documents) |->
               doc_open_line(k - 1) \o Concat(documents[k]) \o DOC_CLOSE \o <<NL>>])

(***************************************************************************)
(* The filesystem.  A path string resolves to its components; fs maps the  *)
(* resolved paths that exist to their entries.  A directory entry lists    *)
(* its names in the order of os.listdir.  Kinds: "dir", "file" (a regular  *)
(* readable file), "locked" (a regular file that may not be read) and      *)
(* "other" (a fifo or socket: neither isfile nor isdir).                   *)
(***************************************************************************)
SLASH == "/"

RECURSIVE ResolveFrom(_, _, _, _)
ResolveFrom(path, i, cur, parts) ==
    IF i > Len(path)
    THEN IF cur = <<>> THEN parts ELSE Append(parts, cur)
    ELSE IF path[i] = SLASH
         THEN ResolveFrom(path, i + 1, <<>>,
                          IF cur = <<>> THEN parts ELSE Append(parts, cur))
         ELSE ResolveFrom(path, i + 1, Append(cur, path[i]), parts)

Resolve(path) == ResolveFrom(path, 1, <<>>, <<>>)

Parent(r) == SubSeq(r, 1, Len(r) - 1)
Base(r) == r[Len(r)]

DirEntry(names) == [kind |-> "dir", names |-> names, data |-> <<>>]
FileEntry(kind, data) == [kind |-> kind, names |-> <<>>, data |-> data]

\* str.endswith("/")
endswith_slash(path) == path # <<>> /\ path[Len(path)] = SLASH

os_path_isfile(f, path) ==
    /\ Resolve(path) \in DOMAIN f
    /\ f[Resolve(path)].kind \in {"file", "locked"}
    /\ ~endswith_slash(path)

os_path_isdir(f, path) ==
    /\ Resolve(path) \in DOMAIN f
    /\ f[Resolve(path)].kind = "dir"

os_path_exists(f, path) ==
    /\ Resolve(path) \in DOMAIN f
    /\ endswith_slash(path) => f[Resolve(path)].kind = "dir"

os_listdir(f, path) == f[Resolve(path)].names

\* the filesystem with entry e added at the new resolved path r
WithEntry(f, r, e) ==
    [q \in DOMAIN f \cup {r} |->
        IF q = r THEN e
        ELSE IF q = Parent(r)
             THEN [f[q] EXCEPT !.names = Append(@, Base(r))]
             ELSE f[q]]

\* os.mkdir(path): the exception raised, or "ok" and the new filesystem
os_mkdir(f, path) ==
    LET r == Resolve(path)
    IN  IF r \in DOMAIN f THEN [err |-> "FileExistsError", fs |-> f]
        ELSE IF Parent(r) \notin DOMAIN f
             THEN [err |-> "FileNotFoundError", fs |-> f]
             ELSE IF f[Parent(r)].kind # "dir"
                  THEN [err |-> "NotADirectoryError", fs |-> f]
                  ELSE [err |-> "ok", fs |-> WithEntry(f, r, DirEntry(<<>>))]

\* open(path, "w") followed by the writes and the close
open_write(f, path, data) ==
    LET r == Resolve(path)
    IN  IF r \in DOMAIN f
        THEN IF f[r].kind = "dir" THEN [err |-> "IsADirectoryError", fs |-> f]
             ELSE IF f[r].kind = "locked"
                  THEN [err |-> "PermissionError", fs |-> f]
                  ELSE [err |-> "ok",
                        fs |-> [f EXCEPT ![r] = FileEntry(f[r].kind, data)]]
        ELSE IF Parent(r) \notin DOMAIN f
             THEN [err |-> "FileNotFoundError", fs |-> f]
             ELSE IF f[Parent(r)].kind # "dir"
                  THEN [err |-> "NotADirectoryError", fs |-> f]
                  ELSE [err |-> "ok",
                        fs |-> WithEntry(f, r, FileEntry("file", data))]

(***************************************************************************)
(* str.lower() on the letters of the corpus names.                         *)
(***************************************************************************)
UPPER == <<"A", "B", "C", "D", "E", "F", "G", "H", "I", "J", "K", "L", "M", "N", "O", "P", "Q", "R", "S", "T", "U", "V", "W", "X", "Y", "Z">>
LOWER == <<"a", "b", "c", "d", "e", "f", "g", "h", "i", "j", "k", "l", "m", "n", "o", "p", "q", "r", "s", "t", "u", "v", "w", "x", "y", "z">>

lower_char(c) ==
    IF \E k \in 1..Len(UPPER) : UPPER[k] = c
    THEN LOWER[CHOOSE k \in 1..Len(UPPER) : UPPER[k] = c]
    ELSE c

lower(name) == [k \in 1..Len(name) |-> lower_char(name[k])]

\* "/" in corpus_name
has_slash(name) == \E k \in 1..Len(name) : name[k] = SLASH

(***************************************************************************)
(* _fetch_file_paths: the recursion of lines 121-133.                      *)
(***************************************************************************)
RECURSIVE _fetch_file_paths(_, _)
RECURSIVE fetch_each(_, _, _, _)

\* the loop of lines 126-129 from the k-th filename on
fetch_each(f, source_path, filenames, k) ==
    IF k > Len(filenames) THEN <<>>
    ELSE _fetch_file_paths(f, source_path \o <<SLASH>> \o filenames[k])
         \o fetch_each(f, source_path, filenames, k + 1)

\* a walk that lists a directory and does not descend
fetch_file_paths_flat(f, source_path) ==
    IF os_path_isfile(f, source_path) THEN <<source_path>>
    ELSE IF os_path_isdir(f, source_path)
         THEN LET filenames == os_listdir(f, source_path)
                  full(k) == source_path \o <<SLASH>> \o filenames[k]
              IN  SelectSeq([k \in 1..Len(filenames) |-> full(k)],
                            LAMBDA p : os_path_isfile(f, p))
         ELSE <<>>

_fetch_file_paths(f, source_path) ==
    IF os_path_isfile(f, source_path) THEN <<source_path>>
    ELSE IF os_path_isdir(f, source_path)
         THEN fetch_each(f, source_path, os_listdir(f, source_path), 1)
         ELSE <<>>

(***************************************************************************)
(* _create_corpus_directory and _create_registry_file.  Each gives the     *)
(* outcome ("ok", the logged error, or the uncaught exception), the exit   *)
(* status of the outcome and the filesystem it leaves.                     *)
(***************************************************************************)
CORPORA == <<"c", "o", "r", "p", "o", "r", "a", "/">>
REGISTRY == <<"r", "e", "g", "i", "s", "t", "r", "y", "/">>
VERTICAL == <<"/", "v", "e", "r", "t", "i", "c", "a", "l">>
SOURCE == <<"/", "s", "o", "u", "r", "c", "e">>

\* sys.exit(-1)
EXIT_ERROR == 255
\* an uncaught exception
EXIT_TRACEBACK == 1

\* lines 59-60 and 82-83
with_slash(path) == IF endswith_slash(path) THEN path ELSE path \o <<SLASH>>

corpus_path_of(nosketch_docker_path, corpus_name) ==
    with_slash(nosketch_docker_path) \o CORPORA \o lower(corpus_name)

\* a corpus directory that is reused when it is already there
create_corpus_directory_exist_ok(f, nosketch_docker_path, corpus_name) ==
    LET corpus_path == corpus_path_of(nosketch_docker_path, corpus_name)
        made == os_mkdir(f, corpus_path)
        sub == os_mkdir(made.fs, corpus_path \o VERTICAL)
    IN  IF ~os_path_exists(f, with_slash(nosketch_docker_path))
        THEN [outcome |-> "root_missing", status |-> EXIT_ERROR, fs |-> f,
              vertical_path |-> <<>>, made |-> <<>>]
        ELSE IF made.err \notin {"ok", "FileExistsError"}
             THEN [outcome |-> made.err, status |-> EXIT_TRACEBACK, fs |-> f,
                   vertical_path |-> <<>>, made |-> <<>>]
             ELSE [outcome |-> "ok", status |-> 0, fs |-> sub.fs,
                   vertical_path |-> corpus_path \o VERTICAL,
                   made |-> <<corpus_path, corpus_path \o VERTICAL>>]

_create_corpus_directory(f, nosketch_docker_path, corpus_name) ==
    LET corpus_path == corpus_path_of(nosketch_docker_path, corpus_name)
        made == os_mkdir(f, corpus_path)
        vertical_path == corpus_path \o VERTICAL
        sub == os_mkdir(made.fs, vertical_path)
    IN  IF ~os_path_exists(f, with_slash(nosketch_docker_path))
        THEN [outcome |-> "root_missing", status |-> EXIT_ERROR, fs |-> f,
              vertical_path |-> <<>>, made |-> <<>>]
        ELSE IF made.err = "FileExistsError"
             THEN [outcome |-> "corpus_exists", status |-> EXIT_ERROR, fs |-> f,
                   vertical_path |-> <<>>, made |-> <<>>]
             ELSE IF made.err # "ok"
                  THEN [outcome |-> made.err, status |-> EXIT_TRACEBACK,
                        fs |-> f, vertical_path |-> <<>>, made |-> <<>>]
                  ELSE IF sub.err # "ok"
                       THEN [outcome |-> sub.err, status |-> EXIT_TRACEBACK,
                             fs |-> made.fs, vertical_path |-> <<>>,
                             made |-> <<corpus_path>>]
                       ELSE [outcome |-> "ok", status |-> 0, fs |-> sub.fs,
                             vertical_path |-> vertical_path,
                             made |-> <<corpus_path, vertical_path>>]

\* lines 94-110; the fixed lines are kept whole
registry_content(corpus_name) ==
    << <<"NAME \"">> \o corpus_name \o <<"\"", NL>>,
       <<"PATH ">> \o lower(corpus_name) \o <<NL>>,
       <<"ENCODING \"UTF-8\"", NL>>,
       <<"LANGUAGE \"English\"", NL>>,
       <<NL>>,
       <<"PATH   '/corpora/">> \o lower(corpus_name) \o <<"/indexed/'", NL>>,
       <<"VERTICAL  '/corpora/">> \o lower(corpus_name)
           \o <<"/vertical/source'", NL>>,
       <<NL>>,
       <<NL>>,
       <<"ATTRIBUTE  word", NL>>,
       <<NL>>,
       <<"STRUCTURE doc {", NL>>,
       <<"    LABEL \"Corpus Document\"", NL>>,
       <<"}", NL>> >>

registry_file_path_of(nosketch_docker_path, corpus_name) ==
    with_slash(nosketch_docker_path) \o CORPORA \o REGISTRY \o lower(corpus_name)

_create_registry_file(f, nosketch_docker_path, corpus_name) ==
    LET registry_file_path ==
            registry_file_path_of(nosketch_docker_path, corpus_name)
        written == open_write(f, registry_file_path,
                              Concat(registry_content(corpus_name)))
    IN  IF ~os_path_exists(f, with_slash(nosketch_docker_path))
        THEN [outcome |-> "root_missing", status |-> EXIT_ERROR, fs |-> f]
        ELSE IF written.err # "ok"
             THEN [outcome |-> written.err, status |-> EXIT_TRACEBACK, fs |-> f]
             ELSE [outcome |-> "ok", status |-> 0, fs |-> written.fs]

(***************************************************************************)
(* State.                                                                  *)
(***************************************************************************)
VARIABLES
    pc,                    \* the position of the program
    raw_texts,             \* the texts that _read_texts returned
    docs,                  \* the documents of _convert_text_to_vert
    sink,                  \* what _write_vert wrote (SpecText)
    single_document_mode,  \* whether the caller asked for the <doc> form
    fs,                    \* the filesystem: resolved path -> entry
    args,                  \* parsed_args of the current run
    file_paths,            \* the paths that _fetch_file_paths returned
    vertical_path,         \* the path that _create_corpus_directory returned
    exit_status,           \* the exit status of the process, -1 while it runs
    error,                 \* the logged error or the uncaught exception
    io,                    \* the file operations of the current run, in order
    fs0,                   \* the filesystem when the current run started
    runs,                  \* the number of runs started
    prev_load              \* what the previous run loaded, and from which tree

main_vars == <<fs, args, file_paths, vertical_path, exit_status, error, io, fs0, runs, prev_load>>
vars == <<pc, raw_texts, docs, sink, single_document_mode,
          fs, args, file_paths, vertical_path, exit_status, error, io, fs0,
          runs, prev_load>>

(***************************************************************************)
(* Spec: runs of main() against a filesystem.                              *)
(***************************************************************************)
SRC == <<"s", "r", "c">>
NS == <<"n", "s">>
A_TXT == <<"a", ".", "t", "x", "t">>
B_TXT == <<"b", ".", "t", "x", "t">>
C_TXT == <<"c", ".", "t", "x", "t">>
D_DIR == <<"d">>
CORPORA_DIR == <<"c", "o", "r", "p", "o", "r", "a">>
REGISTRY_DIR == <<"r", "e", "g", "i", "s", "t", "r", "y">>
NEWS == <<"n", "e", "w", "s">>

Put(r, e) == [path |-> r, entry |-> e]

RECURSIVE BuildFs(_, _)
\* the filesystem after creating the entries of puts in order
BuildFs(f, puts) ==
    IF puts = <<>> THEN f
    ELSE BuildFs(WithEntry(f, Head(puts).path, Head(puts).entry), Tail(puts))

EmptyFs == [r \in {<<>>} |-> DirEntry(<<>>)]

SourceFiles == { <<Put(<<SRC, A_TXT>>, FileEntry(k, <<"H", "i">>))>> : k \in {"file", "locked"} }

SourceSubdirs ==
    LET d == Put(<<SRC, D_DIR>>, DirEntry(<<>>))
        b == Put(<<SRC, D_DIR, B_TXT>>, FileEntry("file", <<"B", "y", "e", " ", "!">>))
        c == Put(<<SRC, D_DIR, C_TXT>>, FileEntry("file", <<".", ".", ".">>))
    IN  { <<Put(<<SRC, D_DIR>>, FileEntry("other", <<>>))>>,
          <<d>>, <<d, b>>, <<d, c>>, <<d, b, c>>, <<d, c, b>> }

\* the source trees, each as the order in which its entries were created
SourceTrees ==
    { <<>>,
      <<Put(<<SRC>>, FileEntry("file", <<"H", "e", "l", "l", "o", ",", " ", "w", "o", "r", "l", "d", "!">>))>>,
      <<Put(<<SRC>>, FileEntry("other", <<>>))>> }
    \cup { <<Put(<<SRC>>, DirEntry(<<>>))>> \o body :
             body \in {<<>>} \cup SourceFiles \cup SourceSubdirs
                      \cup {a \o d : a \in SourceFiles, d \in SourceSubdirs}
                      \cup {d \o a : a \in SourceFiles, d \in SourceSubdirs} }

\* the output roots: missing, bare, with corpora/, with corpora/registry/,
\* and with a corpus "news" of an earlier conversion
OutputTrees ==
    LET ns == Put(<<NS>>, DirEntry(<<>>))
        corpora == Put(<<NS, CORPORA_DIR>>, DirEntry(<<>>))
        registry == Put(<<NS, CORPORA_DIR, REGISTRY_DIR>>, DirEntry(<<>>))
    IN  { <<>>, <<ns>>, <<ns, corpora>>, <<ns, corpora, registry>>,
          <<ns, corpora, registry,
            Put(<<NS, CORPORA_DIR, NEWS>>, DirEntry(<<>>)),
            Put(<<NS, CORPORA_DIR, NEWS, <<"v", "e", "r", "t", "i", "c", "a", "l">>>>, DirEntry(<<>>)),
            Put(<<NS, CORPORA_DIR, NEWS, <<"v", "e", "r", "t", "i", "c", "a", "l">>, <<"s", "o", "u", "r", "c", "e">>>>,
                FileEntry("file", <<"o", "l", "d">>)),
            Put(<<NS, CORPORA_DIR, REGISTRY_DIR, NEWS>>,
                FileEntry("file", <<"o", "l", "d">>))>> }

SourcePathArgs == { SRC, NS }
NosketchPathArgs == { NS, NS \o <<SLASH>> }
CorpusNames == { <<"N", "e", "w", "s">>, <<"n", "e", "w", "s">>, <<"a", "/", "b">> }

ArgsSet ==
    [source_path : SourcePathArgs,
     nosketch_directory_path : NosketchPathArgs,
     corpus_name : CorpusNames]

NoLoad == [loaded |-> FALSE, texts |-> <<>>, tree |-> <<>>]

Init ==
    /\ pc = "main"
    /\ \E src \in SourceTrees, out \in OutputTrees :
           fs = BuildFs(EmptyFs, src \o out)
    /\ args \in ArgsSet
    /\ raw_texts = <<>>
    /\ docs = <<>>
    /\ sink = <<>>
    /\ single_document_mode = FALSE
    /\ file_paths = <<>>
    /\ vertical_path = <<>>
    /\ exit_status = -1
    /\ error = "none"
    /\ io = <<>>
    /\ fs0 = fs
    /\ runs = 1
    /\ prev_load = NoLoad

Event(op, path) == [op |-> op, path |-> path]

\* the process ends with a logged error or an uncaught exception
Exit(status, why) ==
    /\ pc' = "exited"
    /\ exit_status' = status
    /\ error' = why

\* a main() that does not look at the corpus name
CheckName_absent ==
    /\ pc = "main"
    /\ pc' = "fetch"
    /\ UNCHANGED <<raw_texts, docs, sink, single_document_mode, fs, args,
                   file_paths, vertical_path, exit_status, error, io, fs0,
                   runs, prev_load>>

\* lines 149-151
CheckName ==
    /\ pc = "main"
    /\ IF has_slash(args.corpus_name)
       THEN Exit(EXIT_ERROR, "name_has_slash")
       ELSE pc' = "fetch" /\ UNCHANGED <<exit_status, error>>
    /\ UNCHANGED <<raw_texts, docs, sink, single_document_mode, fs, args,
                   file_paths, vertical_path, io, fs0, runs, prev_load>>

\* line 177
FetchFilePaths ==
    /\ pc = "fetch"
    /\ file_paths' = _fetch_file_paths(fs, args.source_path)
    /\ io' = Append(io, Event("walk", args.source_path))
    /\ pc' = "read"
    /\ UNCHANGED <<raw_texts, docs, sink, single_document_mode, fs, args,
                   vertical_path, exit_status, error, fs0, runs, prev_load>>

\* lines 180-182, one file
ReadText ==
    /\ pc = "read"
    /\ Len(raw_texts) < Len(file_paths)
    /\ LET file_path == file_paths[Len(raw_texts) + 1]
           entry == fs[Resolve(file_path)]
       IN  /\ io' = Append(io, Event("read", file_path))
           /\ IF entry.kind = "locked"
              THEN Exit(EXIT_TRACEBACK, "PermissionError")
                   /\ UNCHANGED raw_texts
              ELSE /\ raw_texts' = Append(raw_texts, entry.data)
                   /\ UNCHANGED <<pc, exit_status, error>>
    /\ UNCHANGED <<docs, sink, single_document_mode, fs, args, file_paths,
                   vertical_path, fs0, runs, prev_load>>

\* lines 183 and 155
ConvertTexts ==
    /\ pc = "read"
    /\ Len(raw_texts) = Len(file_paths)
    /\ docs' = _convert_text_to_vert(raw_texts)
    /\ io' = Append(io, Event("convert", <<>>))
    /\ pc' = "debug"
    /\ UNCHANGED <<raw_texts, sink, single_document_mode, fs, args, file_paths,
                   vertical_path, exit_status, error, fs0, runs, prev_load>>

\* a debug message that does not index the documents
DebugLog_no_index ==
    /\ pc = "debug"
    /\ pc' = "create_dir"
    /\ UNCHANGED <<raw_texts, docs, sink, single_document_mode, fs, args,
                   file_paths, vertical_path, exit_status, error, io, fs0,
                   runs, prev_load>>

\* line 157: the f-string evaluates docs[0] at every logging level
DebugLog ==
    /\ pc = "debug"
    /\ IF docs = <<>>
       THEN Exit(EXIT_TRACEBACK, "IndexError")
       ELSE pc' = "create_dir" /\ UNCHANGED <<exit_status, error>>
    /\ UNCHANGED <<raw_texts, docs, sink, single_document_mode, fs, args,
                   file_paths, vertical_path, io, fs0, runs, prev_load>>

\* lines 159-160
CreateCorpusDirectory ==
    /\ pc = "create_dir"
    /\ LET res == _create_corpus_directory(fs, args.nosketch_directory_path,
                                           args.corpus_name)
       IN  /\ fs' = res.fs
           /\ io' = io \o [k \in 1..Len(res.made) |-> Event("mkdir", res.made[k])]
           /\ vertical_path' = res.vertical_path
           /\ IF res.outcome = "ok"
              THEN pc' = "write_vert" /\ UNCHANGED <<exit_status, error>>
              ELSE Exit(res.status, res.outcome)
    /\ UNCHANGED <<raw_texts, docs, sink, single_document_mode, args,
                   file_paths, fs0, runs, prev_load>>

\* line 162: _write_vert opens vertical_path + "/source" and writes
WriteVert ==
    /\ pc = "write_vert"
    /\ LET res == open_write(fs, vertical_path \o SOURCE, _write_vert(docs))
       IN  /\ fs' = res.fs
           /\ IF res.err = "ok"
              THEN /\ io' = Append(io, Event("write", vertical_path \o SOURCE))
                   /\ pc' = "registry"
                   /\ UNCHANGED <<exit_status, error>>
              ELSE /\ Exit(EXIT_TRACEBACK, res.err)
                   /\ UNCHANGED io
    /\ UNCHANGED <<raw_texts, docs, sink, single_document_mode, args,
                   file_paths, vertical_path, fs0, runs, prev_load>>

\* lines 164-165
CreateRegistryFile ==
    /\ pc = "registry"
    /\ LET res == _create_registry_file(fs, args.nosketch_directory_path,
                                        args.corpus_name)
       IN  /\ fs' = res.fs
           /\ IF res.outcome = "ok"
              THEN /\ io' = Append(io, Event("write_registry",
                              registry_file_path_of(args.nosketch_directory_path,
                                                    args.corpus_name)))
                   /\ pc' = "done"
                   /\ exit_status' = 0
                   /\ UNCHANGED error
              ELSE /\ Exit(res.status, res.outcome)
                   /\ UNCHANGED io
    /\ UNCHANGED <<raw_texts, docs, sink, single_document_mode, args,
                   file_paths, vertical_path, fs0, runs, prev_load>>

\* the part of the filesystem at and below a path
TreeAt(f, path) ==
    LET root == Resolve(path)
        below == {r \in DOMAIN f : Len(r) >= Len(root)
                                   /\ SubSeq(r, 1, Len(root)) = root}
    IN  [r \in below |-> f[r]]

Loaded == \E k \in 1..Len(io) : io[k].op = "convert"

\* the program is started again on the filesystem the last run left
Rerun ==
    /\ pc \in {"done", "exited"}
    /\ runs < MaxRuns
    /\ runs' = runs + 1
    /\ args' \in ArgsSet
    /\ prev_load' = IF Loaded
                    THEN [loaded |-> TRUE, texts |-> raw_texts,
                          tree |-> TreeAt(fs0, args.source_path)]
                    ELSE NoLoad
    /\ pc' = "main"
    /\ raw_texts' = <<>>
    /\ docs' = <<>>
    /\ file_paths' = <<>>
    /\ vertical_path' = <<>>
    /\ exit_status' = -1
    /\ error' = "none"
    /\ io' = <<>>
    /\ fs0' = fs
    /\ UNCHANGED <<sink, single_document_mode, fs>>

Next ==
    \/ CheckName
    \/ FetchFilePaths
    \/ ReadText
    \/ ConvertTexts
    \/ DebugLog
    \/ CreateCorpusDirectory
    \/ WriteVert
    \/ CreateRegistryFile
    \/ Rerun

Spec == Init /\ [][Next]_vars

(***************************************************************************)
(* SpecText: the tokenizer and the serializer on enumerated corpora.       *)
(***************************************************************************)
Alphabet == {"a", "b", ".", "<", " ", "\n"}
ShortAlphabet == {"a", ".", " "}

TextsUpTo(chars, n) == UNION {[1..k -> chars] : k \in 0..n}

RECURSIVE SeqsUpTo(_, _)
SeqsUpTo(S, n) ==
    IF n = 0 THEN {<<>>}
    ELSE LET shorter == SeqsUpTo(S, n - 1)
         IN  shorter \cup {Append(q, x) : q \in shorter, x \in S}

SampleTexts ==
    { <<>>,
      <<"H", "i">>,
      <<"B", "y", "e", " ", "!">>,
      <<".", ".", ".">>,
      <<"H", "e", "l", "l", "o", ",", " ", "w", "o", "r", "l", "d", "!">>,
      <<"a", " ", "<", "/", "d", "o", "c", ">", "\t", "b">>,
      <<"<", "d", "o", "c", " ", "n", "=", "\"", "1", "\"", ">", "\n">> }

Corpora ==
    {<<t>> : t \in TextsUpTo(Alphabet, MaxLen) \cup SampleTexts}
    \cup SeqsUpTo(TextsUpTo(ShortAlphabet, MaxShort) \cup SampleTexts, MaxDocs)

TextInit ==
    /\ pc = "text_input"
    /\ raw_texts \in Corpora
    /\ docs = <<>>
    /\ sink = <<>>
    /\ single_document_mode = FALSE
    /\ fs = <<>>
    /\ args = <<>>
    /\ file_paths = <<>>
    /\ vertical_path = <<>>
    /\ exit_status = -1
    /\ error = "none"
    /\ io = <<>>
    /\ fs0 = <<>>
    /\ runs = 0
    /\ prev_load = <<>>

\* docs = _convert_text_to_vert(raw_texts)
Tokenize ==
    /\ pc = "text_input"
    /\ docs' = _convert_text_to_vert(raw_texts)
    /\ pc' = "text_tokenized"
    /\ UNCHANGED <<raw_texts, sink, single_document_mode, main_vars>>

\* _write_vert(docs, ...): the function has no parameter for the mode
Serialize ==
    /\ pc = "text_tokenized"
    /\ \E mode \in BOOLEAN : single_document_mode' = mode
    /\ sink' = _write_vert(docs)
    /\ pc' = "text_serialized"
    /\ UNCHANGED <<raw_texts, docs, main_vars>>

TextNext == Tokenize \/ Serialize

SpecText == TextInit /\ [][TextNext]_vars

(***************************************************************************)
(* Reading the documents and the vertical file back.                       *)
(***************************************************************************)
\* a token without its line separator
Strip(token) == SubSeq(token, 1, Len(token) - 1)

StrippedDoc(doc) == [j \in 1..Len(doc) |-> Strip(doc[j])]

NonWhitespace(text) == SelectSeq(text, LAMBDA c : c \notin WHITESPACE)

RECURSIVE FileLinesFrom(_, _, _, _)
FileLinesFrom(content, i, cur, lines) ==
    IF i > Len(content) THEN Append(lines, cur)
    ELSE IF content[i] = NL
         THEN FileLinesFrom(content, i + 1, <<>>, Append(lines, cur))
         ELSE FileLinesFrom(content, i + 1, Append(cur, content[i]), lines)

\* content.split("\n"): the last element is what follows the last newline
FileLines(content) == FileLinesFrom(content, 1, <<>>, <<>>)

Digits == {"0", "1", "2", "3", "4", "5", "6", "7", "8", "9"}

IsOpenLine(line) ==
    /\ Len(line) > Len(DOC_OPEN_1) + Len(DOC_OPEN_2)
    /\ SubSeq(line, 1, Len(DOC_OPEN_1)) = DOC_OPEN_1
    /\ SubSeq(line, Len(line) - Len(DOC_OPEN_2) + 1, Len(line)) = DOC_OPEN_2
    /\ \A k \in (Len(DOC_OPEN_1) + 1)..(Len(line) - Len(DOC_OPEN_2)) :
           line[k] \in Digits

IsCloseLine(line) == line = DOC_CLOSE

IsMarkerLine(line) == IsOpenLine(line) \/ IsCloseLine(line)

RECURSIVE ParseVertFrom(_, _, _, _, _)
\* split the lines at the marker lines; opened tells whether a document is open
ParseVertFrom(lines, i, opened, cur, parsed) ==
    IF i > Len(lines) THEN [docs |-> parsed, opened |-> opened]
    ELSE IF IsOpenLine(lines[i])
         THEN ParseVertFrom(lines, i + 1, TRUE, <<>>,
                            IF opened THEN Append(parsed, cur) ELSE parsed)
         ELSE IF IsCloseLine(lines[i])
              THEN ParseVertFrom(lines, i + 1, FALSE, <<>>,
                                 IF opened THEN Append(parsed, cur)
                                 ELSE Append(parsed, <<>>))
              ELSE ParseVertFrom(lines, i + 1, opened,
                                 Append(cur, lines[i]), parsed)

ParseVert(lines) == ParseVertFrom(lines, 1, FALSE, <<>>, <<>>)

ExpectedLines(documents) ==
    Concat([k \in 1..Len(documents) |->
               << DOC_OPEN_1 \o int_str(k) \o DOC_OPEN_2 >>
               \o StrippedDoc(documents[k])
               \o << DOC_CLOSE >>])

TokenCount(documents) == Len(Concat(documents))

Tokenized == pc \in {"text_tokenized", "text_serialized"}
Serialized == pc = "text_serialized"

(***************************************************************************)
(* C1: the token sequence of tokenize never contains an empty token: the   *)
(* substring before a punctuation character is emitted only if non-empty.  *)
(***************************************************************************)
C1_NoEmptyToken ==
    Tokenized =>
        \A k \in 1..Len(docs) : \A j \in 1..Len(docs[k]) :
            Strip(docs[k][j]) # <<>>

(***************************************************************************)
(* C2: serialize writes, for each document i in order, the line            *)
(* <doc n="i">, one line per token holding just the token, and the line    *)
(* </doc>; nothing comes before or after, so there are 2*N + tokens lines. *)
(***************************************************************************)
C2_SerializedExactly ==
    Serialized =>
        /\ FileLines(sink) = ExpectedLines(docs) \o << <<>> >>
        /\ Len(FileLines(sink)) - 1 = 2 * Len(docs) + TokenCount(docs)

C2_Witness ==
    /\ Serialized
    /\ Len(docs) = 2
    /\ Len(docs[1]) = 1
    /\ Len(docs[2]) = 2

(***************************************************************************)
(* C6: the tokens of a document, concatenated without their line           *)
(* separators, are the text without its whitespace, in order; no token     *)
(* contains whitespace.                                                    *)
(***************************************************************************)
C6_TokensReconstructText ==
    Tokenized =>
        /\ Len(docs) = Len(raw_texts)
        /\ \A k \in 1..Len(docs) :
              /\ Concat(StrippedDoc(docs[k])) = NonWhitespace(raw_texts[k])
              /\ \A j \in 1..Len(docs[k]) :
                    /\ docs[k][j][Len(docs[k][j])] = NL
                    /\ \A c \in 1..Len(Strip(docs[k][j])) :
                          docs[k][j][c] \notin WHITESPACE

C6_Witness ==
    /\ Tokenized
    /\ \E k \in 1..Len(docs) :
          /\ Len(docs[k]) >= 3
          /\ \E c \in 1..Len(raw_texts[k]) : raw_texts[k][c] \in WHITESPACE
          /\ \E c \in 1..Len(raw_texts[k]) : raw_texts[k][c] \in _PUNCTUATION_CHARS
          /\ \E c \in 1..Len(raw_texts[k]) :
                raw_texts[k][c] \notin WHITESPACE \cup _PUNCTUATION_CHARS

(***************************************************************************)
(* C8: with exactly one document and the single-document mode selected,    *)
(* the document is opened with the line <doc>; otherwise each document is  *)
(* opened with <doc n="i">.                                                *)
(***************************************************************************)
C8_BothBoundaryForms ==
    Serialized =>
        IF single_document_mode /\ Len(docs) = 1
        THEN FileLines(sink)[1] = <<"<", "d", "o", "c", ">">>
        ELSE \A k \in 1..Len(docs) :
                 \E n \in 1..Len(FileLines(sink)) :
                     FileLines(sink)[n] = DOC_OPEN_1 \o int_str(k) \o DOC_OPEN_2

(***************************************************************************)
(* C9: no token line of the vertical file equals an opening or closing     *)
(* marker line, every token being free of punctuation or one punctuation   *)
(* character, so splitting the file at the marker lines gives back the     *)
(* documents and their tokens.                                             *)
(***************************************************************************)
C9_SerializationInjective ==
    Serialized =>
        /\ \A k \in 1..Len(docs) : \A j \in 1..Len(docs[k]) :
              LET token == Strip(docs[k][j])
              IN  /\ ~IsMarkerLine(token)
                  /\ \/ \A c \in 1..Len(token) : token[c] \notin _PUNCTUATION_CHARS
                     \/ Len(token) = 1 /\ token[1] \in _PUNCTUATION_CHARS
        /\ LET lines == FileLines(sink)
               parsed == ParseVert(SubSeq(lines, 1, Len(lines) - 1))
           IN  /\ lines[Len(lines)] = <<>>
               /\ ~parsed.opened
               /\ parsed.docs = [k \in 1..Len(docs) |-> StrippedDoc(docs[k])]

C9_Witness ==
    /\ Serialized
    /\ \E k \in 1..Len(docs) :
          /\ \E j \in 1..Len(docs[k]) : Strip(docs[k][j]) = <<"<">>
          /\ \E j \in 1..Len(docs[k]) : Strip(docs[k][j]) = <<"d", "o", "c">>
          /\ \E j \in 1..Len(docs[k]) : Strip(docs[k][j]) = <<">">>

(***************************************************************************)
(* Claims about the runs of main().                                        *)
(***************************************************************************)
SourceIsFile == os_path_isfile(fs0, args.source_path)
SourceIsDir == os_path_isdir(fs0, args.source_path)

\* the regular files at and below the source path when the run started
RegularFilesOfSource ==
    {r \in DOMAIN TreeAt(fs0, args.source_path) :
        fs0[r].kind \in {"file", "locked"}}

EventsBefore(i, op) == {j \in 1..(i - 1) : io[j].op = op}

(***************************************************************************)
(* C3: when the source path is neither an existing file nor an existing    *)
(* directory, load fails with an InvalidSourceError and never returns an   *)
(* empty sequence of texts.                                                *)
(***************************************************************************)
C3_InvalidSourceFails ==
    (pc \notin {"main", "fetch"} /\ ~has_slash(args.corpus_name)
       /\ ~SourceIsFile /\ ~SourceIsDir)
    => (pc = "exited" /\ error = "InvalidSourceError" /\ ~Loaded)

(***************************************************************************)
(* C4: _create_corpus_directory fails, changing and creating nothing,      *)
(* whenever the output root does not exist or the corpus directory of the  *)
(* lower-cased name is already there; after the failure the run writes     *)
(* neither the vertical file nor the registry file.                        *)
(***************************************************************************)
TargetOccupied ==
    Resolve(args.nosketch_directory_path)
        \o <<CORPORA_DIR, lower(args.corpus_name)>> \in DOMAIN fs

RootMissing ==
    ~( Resolve(args.nosketch_directory_path) \in DOMAIN fs
       /\ fs[Resolve(args.nosketch_directory_path)].kind = "dir" )

C4_LayoutFailureChangesNothing ==
    [][ /\ (pc = "create_dir" /\ (RootMissing \/ TargetOccupied))
            => (pc' = "exited" /\ exit_status' = EXIT_ERROR /\ fs' = fs)
        /\ pc = "exited" => fs' = fs ]_vars

C4_Witness ==
    /\ pc = "exited"
    /\ error = "corpus_exists"
    /\ lower(args.corpus_name) # args.corpus_name
    /\ runs = 2

(***************************************************************************)
(* C5: a corpus name with a path separator is rejected before any I/O: no  *)
(* source file is read and nothing is created or written before the        *)
(* process ends with a non-zero status.                                    *)
(***************************************************************************)
C5_SlashNameRejectedBeforeIO ==
    (has_slash(args.corpus_name) /\ pc # "main")
    => (pc = "exited" /\ exit_status > 0 /\ io = <<>> /\ fs = fs0)

C5_Witness ==
    /\ pc = "exited"
    /\ error = "name_has_slash"
    /\ Cardinality(RegularFilesOfSource) >= 2
    /\ ~RootMissing

(***************************************************************************)
(* C7: load returns one text per regular file of the tree, each file once  *)
(* and every subdirectory entered (one text for a single file); the corpus *)
(* has one document per text in the same order; loading an unchanged tree  *)
(* again gives the same sequence.                                          *)
(***************************************************************************)
C7_OneTextPerFile ==
    Loaded =>
        /\ Len(file_paths) = Cardinality(RegularFilesOfSource)
        /\ \A r \in RegularFilesOfSource :
               \E k \in 1..Len(file_paths) : Resolve(file_paths[k]) = r
        /\ Len(raw_texts) = Len(file_paths)
        /\ \A k \in 1..Len(raw_texts) :
               raw_texts[k] = fs0[Resolve(file_paths[k])].data
        /\ SourceIsFile =>
               raw_texts = <<fs0[Resolve(args.source_path)].data>>
        /\ Len(docs) = Len(raw_texts)
        /\ \A k \in 1..Len(docs) :
               Concat(StrippedDoc(docs[k])) = NonWhitespace(raw_texts[k])
        /\ (prev_load.loaded
              /\ prev_load.tree = TreeAt(fs0, args.source_path))
           => raw_texts = prev_load.texts

C7_Witness ==
    /\ Loaded
    /\ Len(raw_texts) = 3
    /\ \E k \in 1..3 : Len(Resolve(file_paths[k])) = 3
    /\ \E k \in 1..3 : Len(Resolve(file_paths[k])) = 2
    /\ prev_load.loaded
    /\ prev_load.tree = TreeAt(fs0, args.source_path)

(***************************************************************************)
(* C10: the corpus directory is created only after every source file was   *)
(* read and tokenized and the corpus has a document; the vertical file is  *)
(* written only after the corpus directory was created, the registry file  *)
(* only after the vertical file was written completely; a run that fails   *)
(* while reading or finds no file leaves the filesystem as it was.         *)
(***************************************************************************)
C10_OrderOfEffects ==
    /\ \A i \in 1..Len(io) :
          /\ io[i].op = "mkdir" =>
                /\ Cardinality(EventsBefore(i, "read")) = Len(file_paths)
                /\ Len(raw_texts) = Len(file_paths)
                /\ EventsBefore(i, "convert") # {}
                /\ Len(docs) = Len(raw_texts)
                /\ Len(docs) >= 1
          /\ io[i].op = "write" =>
                \E j \in EventsBefore(i, "mkdir") :
                    Resolve(io[j].path) = Parent(Parent(Resolve(io[i].path)))
          /\ io[i].op = "write_registry" =>
                \E j \in EventsBefore(i, "write") :
                    /\ Resolve(io[j].path) \in DOMAIN fs
                    /\ fs[Resolve(io[j].path)].data = _write_vert(docs)
    /\ fs # fs0 => \E i \in 1..Len(io) : io[i].op = "mkdir"
    /\ (pc \in {"done", "exited"} /\ (~Loaded \/ file_paths = <<>>)) => fs = fs0

C10_Witness ==
    /\ pc = "done"
    /\ Len(file_paths) >= 2
    /\ \E i \in 1..Len(io) : io[i].op = "write_registry"

====
